---- MODULE Spec2Model ----
(***************************************************************************)
(* Breadbox: the access-control and signed-URL gate (SecurityMiddleware)   *)
(* of src/breadbox/core/security.py, as a state machine.                   *)
(*                                                                         *)
(* Strings that the code parses or tests for emptiness are sequences of    *)
(* one-character strings ("" is << >>).  A path is a sequence of chunks    *)
(* whose concatenation is the path, so that str.startswith is a prefix     *)
(* test on the sequence.  An HMAC signature is the tuple of the key and    *)
(* the payload it was computed over (an ideal, collision-free MAC); the    *)
(* empty signature string is << >>.                                        *)
(***************************************************************************)
EXTENDS Integers, Sequences, FiniteSets, TLC

VARIABLES
    config,     \* Config (breadbox/core/config.py), loaded once at startup
    now,        \* the wall clock, datetime.now().timestamp() in seconds
    issued,     \* the signed URL that clients hold: the latest one handed out
    req,        \* the request in the middleware, NoRequest when none
    resp,       \* the outcome of dispatch for req, None when none
    hits,       \* rate_limiter: requests counted per client and route in
                \* the running window
    fs,         \* the archive directory (ArchiveHandler.path): its entries
    last,       \* the archive call being answered, NoCall when none
    signer,     \* an HMACSigner: its key, the signature at hand and the
                \* last call of generate or verify
    threads     \* the threads of the pool that run update_info: where each
                \* is in the function and what it holds

vars == <<config, now, issued, req, resp, hits, fs, last, signer, threads>>

\* the variables of the middleware stack and those of the archive
gate_vars == <<config, now, issued, req, resp, hits>>
archive_vars == <<fs, last>>

----------------------------------------------------------------------------
(* Bounds of the model *)

\* the clock takes the values 0, TickSeconds, ..., MaxTicks * TickSeconds
MaxTicks == 3
\* the clock value at startup, in ticks
StartTick == 1
\* the request counters of the rate limiter stop counting here
MaxHits == 4
\* the ids that archive calls are made with are 1..MaxId
MaxId == 2
\* the id of an entry that is there at startup and that no call is made with
FarId == 10
\* the clock moves in steps of this many seconds
TickSeconds == 60

----------------------------------------------------------------------------
(* Python values *)

\* Optional[Response]: "return None"
None == [code |-> "None", called |-> FALSE, extra |-> << >>, log |-> << >>]

Digits == <<"0", "1", "2", "3", "4", "5", "6", "7", "8", "9">>

DigitChars == {Digits[i] : i \in 1..10}

DigitValue(c) == (CHOOSE i \in 1..10 : Digits[i] = c) - 1

\* "%i" % n for n >= 0
RECURSIVE IntToStr(_)
IntToStr(n) ==
    IF n < 10 THEN <<Digits[n + 1]>>
    ELSE Append(IntToStr(n \div 10), Digits[(n % 10) + 1])

\* str.isnumeric(): non-empty and every character numeric
isnumeric(s) == Len(s) > 0 /\ \A i \in 1..Len(s) : s[i] \in DigitChars

RECURSIVE DigitsToInt(_)
DigitsToInt(s) ==
    IF Len(s) = 0 THEN 0
    ELSE 10 * DigitsToInt(SubSeq(s, 1, Len(s) - 1)) + DigitValue(s[Len(s)])

\* int(s) raises ValueError unless s is a decimal literal
IntRaises(s) == ~ (Len(s) > 0 /\ \A i \in 1..Len(s) : s[i] \in DigitChars)

\* str.startswith(tuple of prefixes)
startswith(path, prefixes) ==
    \E p \in prefixes :
        Len(path) >= Len(p) /\ SubSeq(path, 1, Len(p)) = p

----------------------------------------------------------------------------
(* responses.py *)

RESPONSES ==
    { "read_only", "wrong_content_type", "no_api_key", "auth_required",
      "invalid_api_key", "insufficient_permissions", "blacklisted",
      "disabled_feature", "url_signature_mismatch", "signed_url_method",
      "expired_url", "expires_too_late", "not_in_archive", "not_found",
      "already_exists", "resource_created", "resource_updated",
      "upload_succeeded", "little_teapot" }

\* respond(response_code): a structured response, the handler is not called.
\* log is what the request has written to the log when it is answered
respond(response_code) ==
    [code |-> response_code, called |-> FALSE, extra |-> << >>, log |-> << >>]

\* respond(response_code, **kwargs): kwargs go under "extra"
respond_extra(response_code, kwargs) ==
    [code |-> response_code, called |-> FALSE, extra |-> kwargs, log |-> << >>]

\* an exception that leaves dispatch unhandled
raise(exception) ==
    [code |-> exception, called |-> FALSE, extra |-> << >>, log |-> << >>]

\* await call_next(request) with the route handler: the handler runs
handler(request) ==
    [code |-> "handler", called |-> TRUE, extra |-> << >>, log |-> << >>]

\* datetime.fromtimestamp(t, tz=utc).isoformat(timespec='seconds')
isoformat(t) == <<"iso", t>>

----------------------------------------------------------------------------
(* config.py *)

\* Literal['everyone', 'users', 'contributors', 'admin', 'nobody']
GroupNames == <<"everyone", "users", "contributors", "admin", "nobody">>

\* the configurations the server is started with: every action takes every
\* group, and in each configuration the four actions have four different groups
Permissions ==
    { [read   |-> GroupNames[(k % 5) + 1],
       write  |-> GroupNames[((k + 1) % 5) + 1],
       delete |-> GroupNames[((k + 2) % 5) + 1],
       other  |-> GroupNames[((k + 3) % 5) + 1]] : k \in 0..4 }

\* auth_header / auth_cookie: a name, or "" for "" and None (both falsy)
HeaderName == "X-API-KEY"
CookieName == "api_key"

Advanced ==
    [read_only : BOOLEAN,
     protected_prefixes : {{<<"/archive">>}},
     auth_header : {HeaderName, ""},
     auth_cookie : {CookieName, ""}] \ [read_only : BOOLEAN,
                                        protected_prefixes : {{<<"/archive">>}},
                                        auth_header : {""}, auth_cookie : {""}]

\* signed_urls.duration, in minutes
Durations == {1, 2}

\* the configurations with rate limiting switched off and signed URLs
\* switched on (the default)
Configs ==
    [permissions : Permissions,
     advanced : Advanced,
     signed_urls : [enabled : {TRUE}, duration : Durations],
     rate_limits : [enabled : {FALSE}]]

\* the configurations with rate limiting switched on (the default)
RateConfigs ==
    { [c EXCEPT !.rate_limits.enabled = TRUE] :
        c \in { d \in Configs : /\ ~ d.advanced.read_only
                                /\ d.advanced.auth_header = HeaderName
                                /\ d.advanced.auth_cookie = ""
                                /\ d.signed_urls.duration = 1 } }

\* a group name that is not one of the Literal
Moderators == "moderators"

\* the config.toml files the server is started over: every table of
\* Permissions, and each of them with one action given to a group that is
\* not known; signed URLs switched on or off
Tomls ==
    [permissions : Permissions \cup
                   { [p EXCEPT ![action] = Moderators] :
                       p \in Permissions,
                       action \in {"read", "write", "delete", "other"} },
     advanced : { a \in Advanced : /\ ~ a.read_only
                                   /\ a.auth_header = HeaderName
                                   /\ a.auth_cookie = "" },
     signed_urls : [enabled : BOOLEAN, duration : Durations],
     rate_limits : [enabled : {FALSE}]]

\* what config_load ends in when the file is refused
ValidationError == [error |-> "ValidationError"]

\* a slip in _Permissions: the groups are plain str
ConfigModel_model_validate_str(_config) == _config

\* ConfigModel.model_validate(_config): the four permissions are of the type
\* groups, a Literal, and another value is a ValidationError
ConfigModel_model_validate(_config) ==
    IF \A action \in DOMAIN _config.permissions :
          \E i \in 1..Len(GroupNames) : _config.permissions[action] = GroupNames[i]
    THEN _config
    ELSE ValidationError

\* config_load() over a config.toml with the content _config
config_load(_config) == ConfigModel_model_validate(_config)

\* Config before config.py has run, and after it has raised
NotLoaded == [error |-> "NotLoaded"]

----------------------------------------------------------------------------
(* users.py: the user directory behind user_handler *)

\* gus has the level 0 that UserDB.create_user takes like any other int
Users ==
    { [api_key |-> "key-guest", name |-> "gus",  auth_level |-> 0],
      [api_key |-> "key-user",  name |-> "uma",  auth_level |-> 1],
      [api_key |-> "key-contr", name |-> "cora", auth_level |-> 2],
      [api_key |-> "key-admin", name |-> "ada",  auth_level |-> 3] }

\* UserDB.check_key: (name, auth_level) of the user with that key, else (None, None)
check_key(api_key) ==
    IF \E u \in Users : u.api_key = api_key
    THEN LET u == CHOOSE u \in Users : u.api_key = api_key
         IN  [found |-> TRUE, username |-> u.name, auth_level |-> u.auth_level]
    ELSE [found |-> FALSE, username |-> "", auth_level |-> 0]

----------------------------------------------------------------------------
(* security.py *)

\* a slip in the table: contributors given the users' level
groups_contributors_as_users == [users |-> 1, contributors |-> 1, admin |-> 3]

groups == [users |-> 1, contributors |-> 2, admin |-> 3]

\* HMACSigner.key of this process
hmac_key == "server-key"

\* the keys of the payloads that are signed, in the order of sort_keys
SortedKeys == <<"expires", "ip", "url">>

\* the items of a dict (a sequence of <<key, value>> in the order of
\* insertion) that have the key k
entry(obj, k) == SelectSeq(obj, LAMBDA kv : kv[1] = k)

\* json.dumps(obj, sort_keys=True): the items in the order of their keys
RECURSIVE json_dumps_sort_keys(_, _)
json_dumps_sort_keys(obj, i) ==
    IF i > Len(SortedKeys) THEN << >>
    ELSE entry(obj, SortedKeys[i]) \o json_dumps_sort_keys(obj, i + 1)

\* a slip in HMACSigner.generate: json.dumps without sort_keys
HMACSigner_generate_unsorted(key, obj) == <<key>> \o obj

\* HMACSigner.generate: the MAC under key of the key-sorted JSON text of obj
\* (the urlsafe Base64 text of a digest stands for that digest alone)
HMACSigner_generate(key, obj) == <<key>> \o json_dumps_sort_keys(obj, 1)

\* HMACSigner.verify
HMACSigner_verify(key, obj, sig) == HMACSigner_generate(key, obj) = sig

\* the dict that the gate signs, as generate_signed_url and signature_auth
\* write it
payload(obj) == << <<"expires", obj.expires>>, <<"ip", obj.ip>>, <<"url", obj.url>> >>

\* self.hmac_signer.generate
generate(obj) == HMACSigner_generate(hmac_key, payload(obj))

\* self.hmac_signer.verify
verify(obj, sig) == HMACSigner_verify(hmac_key, payload(obj), sig)

\* a slip in generate_signed_url: HEAD is let through like GET
generate_signed_url_head(request) ==
    IF request.method \notin {"GET", "HEAD"} THEN respond("signed_url_method")
    ELSE
        LET expires == now + (config.signed_urls.duration * 60)
            signature == generate([expires |-> expires,
                                   ip |-> request.client,
                                   url |-> request.path])
        IN  [code |-> "signed_url", called |-> FALSE, log |-> << >>,
             extra |-> [url |-> [path |-> request.path,
                                 signature |-> signature,
                                 expires |-> IntToStr(expires)],
                        expires_at |-> isoformat(expires),
                        current_time |-> isoformat(now)]]

\* a slip in generate_signed_url: the duration is added as seconds
generate_signed_url_seconds(request) ==
    IF request.method # "GET" THEN respond("signed_url_method")
    ELSE
        LET expires == now + config.signed_urls.duration
            signature == generate([expires |-> expires,
                                   ip |-> request.client,
                                   url |-> request.path])
        IN  [code |-> "signed_url", called |-> FALSE, log |-> << >>,
             extra |-> [url |-> [path |-> request.path,
                                 signature |-> signature,
                                 expires |-> IntToStr(expires)],
                        expires_at |-> isoformat(expires),
                        current_time |-> isoformat(now)]]

\* SecurityMiddleware.generate_signed_url
generate_signed_url(request) ==
    IF request.method # "GET" THEN respond("signed_url_method")
    ELSE
        LET expires == now + (config.signed_urls.duration * 60)
            signature == generate([expires |-> expires,
                                   ip |-> request.client,
                                   url |-> request.path])
        IN  [code |-> "signed_url", called |-> FALSE, log |-> << >>,
             extra |-> [url |-> [path |-> request.path,
                                 signature |-> signature,
                                 expires |-> IntToStr(expires)],
                        expires_at |-> isoformat(expires),
                        current_time |-> isoformat(now)]]

\* await call_next(request)
call(call_next, request) ==
    IF call_next = "generate_signed_url" THEN generate_signed_url(request)
    ELSE handler(request)

\* headers.get(name) / cookies.get(name) is truthy
has(mapping, name) == name \in DOMAIN mapping /\ mapping[name] # ""

\* query_params.get(name) is truthy
has_param(query_params, name) ==
    name \in DOMAIN query_params /\ query_params[name] # << >>

\* log.info(f"{username}@{request.client.host} -> [{request.method}]
\* {request.url}") before the rest of the request, which gives response: the
\* URL is logged with its query string
log_info(username, request, response) ==
    [response EXCEPT !.log =
        << [username |-> username, host |-> request.client,
            method |-> request.method,
            url |-> [path |-> request.path,
                     query_params |-> request.query_params]] >> \o @]

\* a slip in authorize: the directory is asked before the special groups are looked at
authorize_lookup_first(request, call_next, permission_group, api_key) ==
    LET user == check_key(api_key) IN
    IF ~ user.found THEN respond("invalid_api_key")
    ELSE IF permission_group = "everyone" THEN call(call_next, request)
    ELSE IF permission_group = "nobody" THEN respond("disabled_feature")
    ELSE IF user.auth_level < groups[permission_group]
         THEN respond("insufficient_permissions")
    ELSE log_info(user.username, request, call(call_next, request))

\* a slip in authorize: one missing half of the answer makes the key invalid
authorize_invalid_or(request, call_next, permission_group, api_key) ==
    IF permission_group = "everyone" THEN call(call_next, request)
    ELSE IF permission_group = "nobody" THEN respond("disabled_feature")
    ELSE
    LET user == check_key(api_key)
        no_username == ~ user.found \/ user.username = ""
        no_auth_level == ~ user.found \/ user.auth_level = 0
    IN
    IF no_username \/ no_auth_level THEN respond("invalid_api_key")
    ELSE IF permission_group \notin DOMAIN groups THEN raise("ValueError")
    ELSE IF user.auth_level < groups[permission_group]
         THEN respond("insufficient_permissions")
    ELSE log_info(user.username, request, call(call_next, request))

\* SecurityMiddleware.api_key_auth, from "If the permission is special" on:
\* the decision for a permission group and an API key
authorize(request, call_next, permission_group, api_key) ==
    IF permission_group = "everyone" THEN call(call_next, request)
    ELSE IF permission_group = "nobody" THEN respond("disabled_feature")
    ELSE
    LET user == check_key(api_key)
        no_username == ~ user.found \/ user.username = ""
        no_auth_level == ~ user.found \/ user.auth_level = 0
    IN
    IF no_username /\ no_auth_level THEN respond("invalid_api_key")
    ELSE IF permission_group \notin DOMAIN groups THEN raise("ValueError")
    ELSE IF user.auth_level < groups[permission_group]
         THEN respond("insufficient_permissions")
    ELSE log_info(user.username, request, call(call_next, request))

\* a slip in api_key_auth: the cookie is looked at before the header
api_key_auth_cookie_first(request, call_next) ==
    LET adv == config.advanced
        from_header == adv.auth_header # "" /\ has(request.headers, adv.auth_header)
        from_cookie == adv.auth_cookie # "" /\ has(request.cookies, adv.auth_cookie)
    IN
    IF ~ from_header /\ ~ from_cookie THEN None
    ELSE
    LET api_key == IF from_cookie THEN request.cookies[adv.auth_cookie]
                   ELSE request.headers[adv.auth_header]
    IN
    IF request.method \in {"GET", "HEAD"}
    THEN authorize(request, call_next, config.permissions.read, api_key)
    ELSE IF adv.read_only THEN respond("read_only")
    ELSE IF request.method \in {"PUT", "PATCH", "POST"}
    THEN authorize(request, call_next, config.permissions.write, api_key)
    ELSE IF request.method \in {"DELETE"}
    THEN authorize(request, call_next, config.permissions.delete, api_key)
    ELSE authorize(request, call_next, config.permissions.other, api_key)

\* SecurityMiddleware.api_key_auth
api_key_auth(request, call_next) ==
    LET adv == config.advanced
        from_header == adv.auth_header # "" /\ has(request.headers, adv.auth_header)
        from_cookie == adv.auth_cookie # "" /\ has(request.cookies, adv.auth_cookie)
    IN
    IF ~ from_header /\ ~ from_cookie THEN None
    ELSE
    LET api_key == IF from_header THEN request.headers[adv.auth_header]
                   ELSE request.cookies[adv.auth_cookie]
    IN
    IF request.method \in {"GET", "HEAD"}
    THEN authorize(request, call_next, config.permissions.read, api_key)
    ELSE IF adv.read_only THEN respond("read_only")
    ELSE IF request.method \in {"PUT", "PATCH", "POST"}
    THEN authorize(request, call_next, config.permissions.write, api_key)
    ELSE IF request.method \in {"DELETE"}
    THEN authorize(request, call_next, config.permissions.delete, api_key)
    ELSE authorize(request, call_next, config.permissions.other, api_key)

\* a slip in check_grant: the duration is taken in seconds
check_grant_seconds(request, call_next, signature, expires) ==
    LET max_expires == now + config.signed_urls.duration IN
    IF ~ verify([expires |-> expires, ip |-> request.client, url |-> request.path],
                signature)
    THEN respond("url_signature_mismatch")
    ELSE IF expires > max_expires THEN respond("expires_too_late")
    ELSE IF now > expires
         THEN respond_extra("expired_url",
                            [expires_at |-> isoformat(expires),
                             current_time |-> isoformat(now)])
    ELSE call(call_next, request)

\* a slip in check_grant: the URL is refused already in its last second
check_grant_early_expiry(request, call_next, signature, expires) ==
    LET max_expires == now + (config.signed_urls.duration * 60) IN
    IF ~ verify([expires |-> expires, ip |-> request.client, url |-> request.path],
                signature)
    THEN respond("url_signature_mismatch")
    ELSE IF expires > max_expires THEN respond("expires_too_late")
    ELSE IF now >= expires
         THEN respond_extra("expired_url",
                            [expires_at |-> isoformat(expires),
                             current_time |-> isoformat(now)])
    ELSE call(call_next, request)

\* a slip in check_grant: the expiry test compares with max_expires
check_grant_wrong_bound(request, call_next, signature, expires) ==
    LET max_expires == now + (config.signed_urls.duration * 60) IN
    IF ~ verify([expires |-> expires, ip |-> request.client, url |-> request.path],
                signature)
    THEN respond("url_signature_mismatch")
    ELSE IF expires > max_expires THEN respond("expires_too_late")
    ELSE IF now > max_expires
         THEN respond_extra("expired_url",
                            [expires_at |-> isoformat(expires),
                             current_time |-> isoformat(now)])
    ELSE call(call_next, request)

\* a slip in check_grant: the duration is taken in hours
check_grant_hours(request, call_next, signature, expires) ==
    LET max_expires == now + (config.signed_urls.duration * 3600) IN
    IF ~ verify([expires |-> expires, ip |-> request.client, url |-> request.path],
                signature)
    THEN respond("url_signature_mismatch")
    ELSE IF expires > max_expires THEN respond("expires_too_late")
    ELSE IF now > expires
         THEN respond_extra("expired_url",
                            [expires_at |-> isoformat(expires),
                             current_time |-> isoformat(now)])
    ELSE call(call_next, request)

\* SecurityMiddleware.signature_auth, from the HMAC verification on:
\* the decision for a signature and an expiry time
check_grant(request, call_next, signature, expires) ==
    LET max_expires == now + (config.signed_urls.duration * 60) IN
    IF ~ verify([expires |-> expires, ip |-> request.client, url |-> request.path],
                signature)
    THEN respond("url_signature_mismatch")
    ELSE IF expires > max_expires THEN respond("expires_too_late")
    ELSE IF now > expires
         THEN respond_extra("expired_url",
                            [expires_at |-> isoformat(expires),
                             current_time |-> isoformat(now)])
    ELSE call(call_next, request)

\* a slip in signature_auth: the method is tested after expires is parsed
signature_auth_method_late(request, call_next) ==
    LET q == request.query_params IN
    IF ~ has_param(q, "signature") THEN None
    ELSE IF "expires" \notin DOMAIN q THEN raise("AttributeError")
    ELSE IF q["expires"] = << >> /\ isnumeric(q["expires"])
         THEN respond("url_signature_mismatch")
    ELSE IF IntRaises(q["expires"]) THEN raise("ValueError")
    ELSE IF request.method # "GET" THEN respond("signed_url_method")
    ELSE check_grant(request, call_next, q["signature"], DigitsToInt(q["expires"]))

\* SecurityMiddleware.signature_auth
signature_auth(request, call_next) ==
    LET q == request.query_params IN
    IF ~ has_param(q, "signature") THEN None
    ELSE IF request.method # "GET" THEN respond("signed_url_method")
    ELSE IF "expires" \notin DOMAIN q THEN raise("AttributeError")
    ELSE IF q["expires"] = << >> /\ isnumeric(q["expires"])
         THEN respond("url_signature_mismatch")
    ELSE IF IntRaises(q["expires"]) THEN raise("ValueError")
    ELSE check_grant(request, call_next, q["signature"], DigitsToInt(q["expires"]))

\* a slip in dispatch: a signed URL is taken for a credential for signUrl
dispatch_mint_by_grant(request) ==
    IF startswith(request.path, config.advanced.protected_prefixes)
    THEN IF "signUrl" \in DOMAIN request.query_params
         THEN LET r == api_key_auth(request, "generate_signed_url") IN
              IF r # None THEN r
              ELSE LET g == signature_auth(request, "generate_signed_url") IN
                   IF g # None THEN g ELSE respond("no_api_key")
         ELSE LET s == signature_auth(request, "handler") IN
              IF s # None THEN s
              ELSE LET a == api_key_auth(request, "handler") IN
                   IF a # None THEN a ELSE respond("auth_required")
    ELSE handler(request)

\* a slip in dispatch: signUrl is looked at before the protected prefixes
dispatch_mint_anywhere(request) ==
    IF "signUrl" \in DOMAIN request.query_params
    THEN LET r == api_key_auth(request, "generate_signed_url")
         IN  IF r # None THEN r ELSE respond("no_api_key")
    ELSE IF startswith(request.path, config.advanced.protected_prefixes)
    THEN LET s == signature_auth(request, "handler") IN
         IF s # None THEN s
         ELSE LET a == api_key_auth(request, "handler") IN
              IF a # None THEN a ELSE respond("auth_required")
    ELSE handler(request)

\* a slip in dispatch: the last denial is the one of the signUrl branch
dispatch_no_api_key(request) ==
    IF startswith(request.path, config.advanced.protected_prefixes)
    THEN IF "signUrl" \in DOMAIN request.query_params
         THEN LET r == api_key_auth(request, "generate_signed_url")
              IN  IF r # None THEN r ELSE respond("no_api_key")
         ELSE LET s == signature_auth(request, "handler") IN
              IF s # None THEN s
              ELSE LET a == api_key_auth(request, "handler") IN
                   IF a # None THEN a ELSE respond("no_api_key")
    ELSE handler(request)

\* a slip in dispatch: the credential is looked at before the signature
dispatch_credential_first(request) ==
    IF startswith(request.path, config.advanced.protected_prefixes)
    THEN IF "signUrl" \in DOMAIN request.query_params
         THEN LET r == api_key_auth(request, "generate_signed_url")
              IN  IF r # None THEN r ELSE respond("no_api_key")
         ELSE LET a == api_key_auth(request, "handler") IN
              IF a # None THEN a
              ELSE LET s == signature_auth(request, "handler") IN
                   IF s # None THEN s ELSE respond("auth_required")
    ELSE handler(request)

\* a slip in dispatch: the signature is looked at before signUrl
dispatch_signature_first(request) ==
    IF startswith(request.path, config.advanced.protected_prefixes)
    THEN LET s == signature_auth(request, "handler") IN
         IF s # None THEN s
         ELSE IF "signUrl" \in DOMAIN request.query_params
         THEN LET r == api_key_auth(request, "generate_signed_url")
              IN  IF r # None THEN r ELSE respond("no_api_key")
         ELSE LET a == api_key_auth(request, "handler") IN
              IF a # None THEN a ELSE respond("auth_required")
    ELSE handler(request)

\* SecurityMiddleware.dispatch
dispatch(request) ==
    IF startswith(request.path, config.advanced.protected_prefixes)
    THEN IF "signUrl" \in DOMAIN request.query_params
         THEN LET r == api_key_auth(request, "generate_signed_url")
              IN  IF r # None THEN r ELSE respond("no_api_key")
         ELSE LET s == signature_auth(request, "handler") IN
              IF s # None THEN s
              ELSE LET a == api_key_auth(request, "handler") IN
                   IF a # None THEN a ELSE respond("auth_required")
    ELSE handler(request)

----------------------------------------------------------------------------
(* The requests that clients send *)

Methods == {"GET", "HEAD", "POST", "PUT", "PATCH", "DELETE", "OPTIONS"}

Paths == { <<"/archive", "/anime/1">>, <<"/archive", "/anime/2">>, <<"/docs">> }

Clients == {"10.0.0.1", "10.0.0.2"}

ApiKeys == {u.api_key : u \in Users} \cup {"key-unknown"}

NoValues == [n \in {} |-> ""]

\* the mappings with the one key name, for each value
Values(name, values) == {[n \in {name} |-> v] : v \in values}

Headers == {NoValues} \cup Values(HeaderName, ApiKeys)

Cookies == {NoValues} \cup Values(CookieName, {"key-admin"})

\* a signature parameter: empty, not a MAC of this server, or one it issued
Signatures == {<< >>, <<"garbage">>} \cup {g.signature : g \in issued}

\* an expires parameter: empty, not a number, the current time, or an issued one
Expires == {<< >>, <<"a", "b", "c">>, IntToStr(now)} \cup {g.expires : g \in issued}

\* requests without query parameters: every method and credential
PlainRequests ==
    [method : Methods, path : Paths, client : {"10.0.0.1"},
     headers : Headers, cookies : Cookies, query_params : {NoValues}]

\* requests for a signed URL (?signUrl), with or without a signature
MintRequests ==
    [method : {"GET", "HEAD", "POST"}, path : Paths, client : Clients,
     headers : Headers \ Values(HeaderName, {"key-guest", "key-contr"}),
     cookies : {NoValues},
     query_params :
        { u @@ s : u \in Values("signUrl", {<< >>}),
                   s \in {NoValues} \cup
                         {[signature |-> g.signature, expires |-> g.expires] : g \in issued} }]

\* requests with a signature parameter, to the protected paths
SignedRequests ==
    [method : {"GET", "HEAD"}, path : Paths \ {<<"/docs">>}, client : Clients,
     headers : {NoValues} \cup Values(HeaderName, {"key-admin", "key-unknown"}),
     cookies : {NoValues},
     query_params :
        { s @@ e : s \in Values("signature", Signatures),
                   e \in {NoValues} \cup Values("expires", Expires) }]

Requests == PlainRequests \cup MintRequests \cup SignedRequests

NoRequest ==
    [method |-> "", path |-> << >>, client |-> "", headers |-> NoValues,
     cookies |-> NoValues, query_params |-> NoValues]

\* the requests of the rate-limited runs: one client, two routes
RateRequests ==
    { r \in PlainRequests : r.method \in {"GET", "PATCH"} /\ r.cookies = NoValues }

----------------------------------------------------------------------------
(* The rate limiter: rate_limiter of security.py behind SlowAPIMiddleware *)

\* Config.rate_limits.rules, "3/second" and "20/minute": amount per seconds
Rules == { [amount |-> 3, per |-> 1], [amount |-> 20, per |-> 60] }

\* the routes of an item, by their method: info (GET /{id}) and update_info
\* (PATCH /{id})
Routes == {"GET", "PATCH"}

\* the route a request is matched to
route(request) == request.method

\* routes taken out with rate_limiter.exempt: the Swagger UI
exempt(request) == request.path = <<"/docs">>

\* no request counted yet
NoHits == [k \in Clients \X Routes |-> 0]

\* get_remote_address and the route: the key a request is counted under
key(request) == <<request.client, route(request)>>

\* a rule of the client is used up on the route of the request
exhausted(request) == \E rule \in Rules : hits[key(request)] >= rule.amount

\* the limiter looks at the request: enabled, a route matches and is not exempt
limited(request) ==
    /\ config.rate_limits.enabled
    /\ route(request) \in Routes
    /\ ~ exempt(request)

\* the answer of slowapi when a rule is used up, the handler is not called
rate_limit_exceeded ==
    [code |-> "rate_limit_exceeded", called |-> FALSE, extra |-> << >>,
     log |-> << >>]

\* SlowAPIMiddleware around the route handler: response is the handler's
SlowAPIMiddleware(request, response) ==
    IF limited(request) /\ exhausted(request)
    THEN rate_limit_exceeded
    ELSE response

\* the counters after the limiter has looked at the request
hit(request) ==
    IF limited(request) /\ hits[key(request)] < MaxHits
    THEN [hits EXCEPT ![key(request)] = @ + 1]
    ELSE hits

----------------------------------------------------------------------------
(* archive.py: ArchiveHandler, the storage of one archive *)

\* Python's None as a value of a metadata mapping
NoneValue == "None"

\* str(id)
str(id) == IntToStr(id)

\* int(name)
int(name) == DigitsToInt(name)

\* crumbs.sort(): crumbs is a list of ints, given by the int of each entry
\* it was made from, so that a number can be in it more than once
RECURSIVE sorted(_)
sorted(crumbs) ==
    IF DOMAIN crumbs = {} THEN << >>
    ELSE LET least == CHOOSE _p \in DOMAIN crumbs :
                          \A _q \in DOMAIN crumbs : crumbs[_p] <= crumbs[_q]
         IN  <<crumbs[least]>> \o
             sorted([_q \in DOMAIN crumbs \ {least} |-> crumbs[_q]])

\* json.dump(data, f, indent=2): the text written, one member per key; None
\* is written null and a string between quotes (the values are strings of
\* one character)
json_dump(data) ==
    { <<k, IF data[k] = NoneValue THEN <<"n", "u", "l", "l">>
           ELSE <<"\"", data[k], "\"">> >> :
        k \in DOMAIN data }

\* the number of bytes of a text of json.dump(..., indent=2): the braces,
\* and for each member a line break, the indent, the key of five letters
\* between quotes, a colon and a space, the value, and a comma or the last
\* line break
RECURSIVE size(_)
size(text) ==
    IF text = {} THEN 2
    ELSE LET member == CHOOSE m \in text : TRUE
         IN  13 + Len(member[2]) + size(text \ {member})

\* json.load(f): the mapping that a text stands for
json_load(text) ==
    [k \in {member[1] : member \in text} |->
        LET value == (CHOOSE member \in text : member[1] = k)[2]
        IN  IF value = <<"n", "u", "l", "l">> THEN NoneValue ELSE value[2]]

\* the branches of an item: router.image serves from `images`
Branches == {"images"}

\* a directory that was just made with mkdir(): no marker, no branch.  The
\* bytes of crumb.json are the text that was written last from the start of
\* the file (crumb), and after it what is left of a longer older content, up
\* to crumb_size bytes in all
EmptyDir ==
    [crumb_is_file |-> FALSE,
     crumb |-> {},
     crumb_size |-> 0,
     branches |-> [b \in Branches |-> [is_dir |-> FALSE, files |-> << >>]]]

\* (self.path / name).is_dir(): the entries of the archive are directories
is_dir(name) == name \in DOMAIN fs

\* (self.path / name / 'crumb.json').is_file()
crumb_is_file(name) == name \in DOMAIN fs /\ fs[name].crumb_is_file

\* a slip in list_items: the marker is not asked for
list_items_no_marker ==
    sorted([ _p \in { name \in DOMAIN fs : is_dir(name) /\ isnumeric(name) } |->
                int(_p) ])

\* ArchiveHandler.list_items
list_items ==
    sorted([ _p \in { name \in DOMAIN fs : /\ is_dir(name)
                                            /\ isnumeric(name)
                                            /\ crumb_is_file(name) } |->
                int(_p) ])

\* ArchiveHandler.check_item
check_item(id) == crumb_is_file(str(id))

\* the bytes of crumb.json are one JSON text: not an empty file, and nothing
\* after the text
crumb_is_json(name) == fs[name].crumb_size = size(fs[name].crumb)

\* ArchiveHandler.get_item_info: open() raises FileNotFoundError when there
\* is no marker; json.load raises JSONDecodeError when the bytes are no JSON
\* text, else it returns the mapping
get_item_info(id) ==
    IF ~ crumb_is_file(str(id))
    THEN [error |-> "FileNotFoundError", value |-> << >>]
    ELSE IF ~ crumb_is_json(str(id))
    THEN [error |-> "JSONDecodeError", value |-> << >>]
    ELSE [error |-> "", value |-> json_load(fs[str(id)].crumb)]

\* item_path.exists()
exists(storage, item_path) == item_path \in DOMAIN storage

\* item_path.mkdir()
mkdir(storage, item_path) ==
    [name \in DOMAIN storage \cup {item_path} |->
        IF name = item_path THEN EmptyDir ELSE storage[name]]

\* open(item_path / 'crumb.json', 'w'): the file is made, or cut to no bytes
open_w(storage, item_path) ==
    [storage EXCEPT ![item_path].crumb_is_file = TRUE,
                    ![item_path].crumb = {},
                    ![item_path].crumb_size = 0]

\* the text of json.dump reaches the file when it is closed: it is written
\* from the start of the file, over the bytes that are there
write(storage, item_path, text) ==
    [storage EXCEPT ![item_path].crumb = text,
                    ![item_path].crumb_size =
                        IF @ > size(text) THEN @ ELSE size(text)]

\* a slip in set_item_info: the keys of the old marker are kept
set_item_info_keeping(id, data) ==
    LET item_path == str(id)
        item == IF item_path \in DOMAIN fs THEN fs[item_path] ELSE EmptyDir
        old == json_load(item.crumb)
        kept == [k \in DOMAIN old \cup DOMAIN data |->
                    IF k \in DOMAIN data THEN data[k] ELSE old[k]]
    IN  [name \in DOMAIN fs \cup {item_path} |->
            IF name = item_path
            THEN [item EXCEPT !.crumb_is_file = TRUE, !.crumb = json_dump(kept),
                              !.crumb_size = size(json_dump(kept))]
            ELSE fs[name]]

\* ArchiveHandler.set_item_info, with no other call in between: the
\* archive directory after the call
set_item_info(id, data) ==
    LET item_path == str(id)
        made == IF ~ exists(fs, item_path) THEN mkdir(fs, item_path) ELSE fs
        opened == open_w(made, item_path)
    IN  write(opened, item_path, json_dump(data))

----------------------------------------------------------------------------
(* archive.py: ArchiveRouter, the endpoints generated for an archive *)

\* the top-level fields of the archive's model (title and audio of AnimeModel)
Fields == {"title", "audio"}

\* model.model_validate(data): every field, None by default; other keys are
\* ignored
model_validate(data) ==
    [f \in Fields |-> IF f \in DOMAIN data THEN data[f] ELSE NoneValue]

\* data.model_dump(): every field of the model, set by the client or not
model_dump(data) == [f \in Fields |-> data[f]]

\* an endpoint's answer together with the archive directory it leaves
answer(storage, response) == [fs |-> storage, response |-> response]

\* ArchiveRouter._generate.list_ids
list_ids ==
    answer(fs, [code |-> "list", called |-> TRUE, extra |-> list_items])

\* a slip in info: FileNotFoundError is not caught
info_uncaught(id) ==
    LET found == get_item_info(id) IN
    IF found.error # "" THEN answer(fs, raise(found.error))
    ELSE answer(fs, [code |-> "model", called |-> TRUE,
                     extra |-> model_validate(found.value)])

\* ArchiveRouter._generate.info
info(id) ==
    LET found == get_item_info(id) IN
    IF found.error = "FileNotFoundError" THEN answer(fs, respond("not_in_archive"))
    ELSE IF found.error # "" THEN answer(fs, raise(found.error))
    ELSE answer(fs, [code |-> "model", called |-> TRUE,
                     extra |-> model_validate(found.value)])

\* existing_data | data.model_dump(): the right operand wins
merge(existing_data, data) ==
    [k \in DOMAIN existing_data \cup DOMAIN data |->
        IF k \in DOMAIN data THEN data[k] ELSE existing_data[k]]

\* ArchiveRouter._generate.update_info; body is what the client sent, data
\* the model instance FastAPI validated it into
update_info(id, body) ==
    LET data == model_validate(body)
        found == get_item_info(id)
    IN
    IF found.error = "FileNotFoundError"
    THEN answer(set_item_info(id, model_dump(data)), respond("resource_created"))
    ELSE IF found.error # "" THEN answer(fs, raise(found.error))
    ELSE answer(set_item_info(id, merge(found.value, model_dump(data))),
                respond("resource_updated"))

\* mimetypes.guess_type(filename)[0], by the extension; "" stands for None
guess_type(filename) ==
    IF filename[Len(filename)] \in {"jpg", "jpeg"} THEN "image/jpeg"
    ELSE IF filename[Len(filename)] = "png" THEN "image/png"
    ELSE ""

\* (self.archive.path / str(id) / branch / filename).is_file()
is_file(id, branch, filename) ==
    /\ str(id) \in DOMAIN fs
    /\ fs[str(id)].branches[branch].is_dir
    /\ filename \in DOMAIN fs[str(id)].branches[branch].files

\* ArchiveRouter.add_file._get_file
get_file(id, branch, filename) ==
    IF is_file(id, branch, filename)
    THEN answer(fs, [code |-> "FileResponse", called |-> TRUE,
                     extra |-> [content |-> fs[str(id)].branches[branch].files[filename],
                                filename |-> <<"Anime", str(id), filename>>]])
    ELSE answer(fs, respond("not_in_archive"))

\* a slip in write_file: the item directory is made anew for the file
write_file_anew(id, branch, filename, file) ==
    [fs EXCEPT ![str(id)] =
        [EmptyDir EXCEPT !.branches[branch] =
            [is_dir |-> TRUE, files |-> [f \in {filename} |-> file.content]]]]

\* the archive directory after the chunks of file were written to the target
write_file(id, branch, filename, file) ==
    [fs EXCEPT ![str(id)].branches[branch] =
        [is_dir |-> TRUE,
         files |-> [f \in DOMAIN @.files \cup {filename} |->
                        IF f = filename THEN file.content ELSE @.files[f]]]]

\* a slip in _upload_file: the item is looked for before the content type
upload_file_item_first(id, branch, filename, file) ==
    LET media_type == guess_type(filename) IN
    IF ~ check_item(id) THEN answer(fs, raise("TypeError"))
    ELSE IF file.content_type # media_type
    THEN answer(fs, respond_extra("wrong_content_type",
                                  [expected_mimetype |-> media_type]))
    ELSE answer(write_file(id, branch, filename, file),
                respond_extra("upload_succeeded", [file_size |-> Len(file.content)]))

\* ArchiveRouter.add_file._upload_file; `raise respond(...)` raises a
\* TypeError, a JSONResponse being no exception
upload_file(id, branch, filename, file) ==
    LET media_type == guess_type(filename) IN
    IF file.content_type # media_type
    THEN answer(fs, respond_extra("wrong_content_type",
                                  [expected_mimetype |-> media_type]))
    ELSE IF ~ check_item(id) THEN answer(fs, raise("TypeError"))
    ELSE answer(write_file(id, branch, filename, file),
                respond_extra("upload_succeeded", [file_size |-> Len(file.content)]))

----------------------------------------------------------------------------
(* The calls that are made to an HMACSigner *)

\* HMACSigner(key): the key of this process and the one of another
Keys == {hmac_key, "other-key"}

\* the orders in which the three keys can be inserted into a dict
Insertions ==
    { order \in [1..3 -> 1..3] : \A i, j \in 1..3 : order[i] = order[j] => i = j }

\* the dicts that are signed and verified, in every order of insertion
Payloads ==
    { [i \in 1..3 |-> payload(obj)[order[i]]] :
        order \in Insertions,
        obj \in [expires : {TickSeconds, 2 * TickSeconds},
                  ip : Clients,
                  url : Paths \ {<<"/docs">>}] }

\* dict equality: the same value under every key, in whatever order
dict(obj) == [k \in {obj[i][1] : i \in 1..Len(obj)} |->
                 (CHOOSE kv \in {obj[i] : i \in 1..Len(obj)} : kv[1] = k)[2]]

\* no signature made by a signer
NotMade == [key |-> "", obj |-> << >>]

NoSigner == [key |-> "", op |-> "", obj |-> << >>, sig |-> << >>,
             made |-> NotMade, ok |-> FALSE]

----------------------------------------------------------------------------
(* The calls that are made to an archive *)

\* the ids of the calls
Ids == 1..MaxId

\* a name that is no id
Abc == <<"a", "b", "c">>

\* an archive directory without entries
NoEntries == [name \in {} |-> EmptyDir]

\* the metadata of the items that are there at startup
Crumb == [title |-> "A", audio |-> "A"]

\* a directory with a marker and no branch
Complete ==
    [EmptyDir EXCEPT !.crumb_is_file = TRUE, !.crumb = json_dump(Crumb),
                     !.crumb_size = size(json_dump(Crumb))]

\* the ids that an entry of the archive directory can stand for
Stored == Ids \cup {FarId}

\* the archive directories at startup: a directory abc with a marker, and
\* each id without entry, with a directory without marker, or complete
Archives ==
    { [name \in {Abc} \cup {str(id) : id \in {i \in Stored : kind[i] # "absent"}} |->
          IF name = Abc THEN Complete
          ELSE IF kind[int(name)] = "complete" THEN Complete ELSE EmptyDir] :
      kind \in [Stored -> {"absent", "empty", "complete"}] }

\* the name of a directory that someone made for an id with zeros in front
Padded(id) == <<"0", "0">> \o str(id)

\* archive directories in which ids have entries that str(id) does not name:
\* each id has its own directory or not, and a zero-padded one or not, all
\* of them with a marker
PaddedArchives ==
    { [name \in {Abc} \cup {str(id) : id \in plain} \cup {Padded(id) : id \in padded} |->
          Complete] :
      plain \in SUBSET Ids, padded \in (SUBSET Ids) \ {{}} }

\* the mappings set_item_info is called with: model fields, or another key
Data == { [title |-> "B", audio |-> "A"], [extra |-> "A"] }

\* the bodies of PATCH requests: the keys the client supplies
Bodies == { [title |-> "B"] }

\* the file names that the routes of the archive compute
Filenames == { <<"thumbnail", "jpg">> }

\* an UploadFile: the declared content type and the chunks of file.read(1024)
Files ==
    [content_type : {"image/jpeg", "image/png"},
     content : {<<"c1">>, <<"c2", "c3">>}]

NoFile == [content_type |-> "", content |-> << >>]

NoCall ==
    [op |-> "", id |-> 0, data |-> << >>, filename |-> << >>, file |-> NoFile,
     response |-> None]

\* update_info is a plain def: FastAPI runs each call of it in a thread of
\* the pool, so two calls run at the same time
Threads == {"t1", "t2"}

\* the bodies of the PATCH requests that run at the same time; the texts of
\* what they make of an item differ in length
RaceBodies == { [title |-> "B"], [title |-> "B", audio |-> "A"] }

\* a thread that runs no call; branch is the part of update_info a thread
\* is in, the try or the except block
Idle ==
    [pc |-> "idle", id |-> 0, body |-> << >>, branch |-> "",
     final_data |-> << >>, response |-> None]

NoThreads == [t \in Threads |-> Idle]

----------------------------------------------------------------------------
(* The state machine *)

Init ==
    /\ config \in Configs
    /\ now = StartTick * TickSeconds
    /\ issued = {}
    /\ req = NoRequest
    /\ resp = None
    /\ hits = NoHits
    /\ fs = NoEntries
    /\ last = NoCall
    /\ signer = NoSigner
    /\ threads = NoThreads

\* startup with rate limiting on
InitRate ==
    /\ config \in RateConfigs
    /\ now = StartTick * TickSeconds
    /\ issued = {}
    /\ req = NoRequest
    /\ resp = None
    /\ hits = NoHits
    /\ fs = NoEntries
    /\ last = NoCall
    /\ signer = NoSigner
    /\ threads = NoThreads

\* the signed URL a client holds after a successful signUrl request
Grant(request, response) ==
    [path |-> response.extra.url.path,
     signature |-> response.extra.url.signature,
     expires |-> response.extra.url.expires,
     client |-> request.client,
     at |-> now]

\* a request passes through the middleware stack.  SecurityMiddleware is
\* added last and is therefore the outermost: what it forwards with
\* call_next goes on to SlowAPIMiddleware and from there to the handler.
Dispatch(request) ==
    /\ LET gate == dispatch(request)
           forwarded == gate.code = "handler"
           response == IF forwarded THEN SlowAPIMiddleware(request, gate)
                       ELSE gate
       IN
       /\ req' = request
       /\ resp' = response
       /\ issued' = IF response.code = "signed_url"
                    THEN {Grant(request, response)}
                    ELSE issued
       /\ hits' = IF forwarded THEN hit(request) ELSE hits
    /\ UNCHANGED <<config, now, archive_vars, signer, threads>>

\* the response has been sent, the request is over
Respond ==
    /\ req # NoRequest
    /\ req' = NoRequest
    /\ resp' = None
    /\ UNCHANGED <<config, now, issued, hits, archive_vars, signer, threads>>

\* the wall clock advances: the windows of all rules are over
Tick ==
    /\ req = NoRequest
    /\ now + TickSeconds <= MaxTicks * TickSeconds
    /\ now' = now + TickSeconds
    /\ hits' = NoHits
    /\ UNCHANGED <<config, issued, req, resp, archive_vars, signer, threads>>

\* the wall clock is set back (datetime.now() is not monotonic)
ClockSetBack ==
    /\ req = NoRequest
    /\ now - TickSeconds >= 0
    /\ now' = now - TickSeconds
    /\ UNCHANGED <<config, issued, req, resp, hits, archive_vars, signer, threads>>

Next ==
    \/ req = NoRequest /\ \E request \in Requests : Dispatch(request)
    \/ Respond
    \/ Tick
    \/ ClockSetBack

Spec == Init /\ [][Next]_vars

\* the same steps with rate limiting on, for one client
NextRate ==
    \/ req = NoRequest /\ \E request \in RateRequests : Dispatch(request)
    \/ Respond
    \/ Tick
    \/ ClockSetBack

SpecRate == InitRate /\ [][NextRate]_vars

\* the process before config.py has run
InitLoad ==
    /\ config = NotLoaded
    /\ now = StartTick * TickSeconds
    /\ issued = {}
    /\ req = NoRequest
    /\ resp = None
    /\ hits = NoHits
    /\ fs = NoEntries
    /\ last = NoCall
    /\ signer = NoSigner
    /\ threads = NoThreads

\* Config = config_load() over the config.toml that is there: the
\* configuration, or the ValidationError that ends the process
Load(_config) ==
    /\ config = NotLoaded
    /\ config' = config_load(_config)
    /\ UNCHANGED <<now, issued, req, resp, hits, archive_vars, signer, threads>>

\* the configuration is loaded, the server takes requests
Loaded == "permissions" \in DOMAIN config

\* startup from a config.toml, then requests under a clock that is not set
\* back
NextLoad ==
    \/ \E _config \in Tomls : Load(_config)
    \/ Loaded /\ req = NoRequest /\ \E request \in Requests : Dispatch(request)
    \/ Respond
    \/ Loaded /\ Tick

SpecLoad == InitLoad /\ [][NextLoad]_vars

\* startup of an archive: ArchiveHandler.__init__ over a directory
InitArchive ==
    /\ config = CHOOSE c \in RateConfigs : c.permissions.read = "everyone"
    /\ now = StartTick * TickSeconds
    /\ issued = {}
    /\ req = NoRequest
    /\ resp = None
    /\ hits = NoHits
    /\ fs \in Archives
    /\ last = NoCall
    /\ signer = NoSigner
    /\ threads = NoThreads

\* a call is made and answered: the archive directory and the answer
Call(op, id, data, filename, file, answered) ==
    /\ last.op = ""
    /\ last' = [op |-> op, id |-> id, data |-> data, filename |-> filename,
                file |-> file, response |-> answered.response]
    /\ fs' = answered.fs
    /\ UNCHANGED <<gate_vars, signer, threads>>

\* GET /
ListIds == Call("list_ids", 0, << >>, << >>, NoFile, list_ids)

\* GET /{id}
Info(id) == Call("info", id, << >>, << >>, NoFile, info(id))

\* archive.set_item_info(id, data), called by a route of the application
SetItemInfo(id, data) ==
    Call("set_item_info", id, data, << >>, NoFile,
         answer(set_item_info(id, data), None))

\* PATCH /{id}
UpdateInfo(id, body) ==
    Call("update_info", id, body, << >>, NoFile, update_info(id, body))

\* PUT /{id}/thumbnail
UploadFile(id, filename, file) ==
    Call("upload_file", id, << >>, filename, file,
         upload_file(id, "images", filename, file))

\* GET /{id}/thumbnail
GetFile(id, filename) ==
    Call("get_file", id, << >>, filename, NoFile,
         get_file(id, "images", filename))

\* the answer has been sent
Return ==
    /\ last.op # ""
    /\ last' = NoCall
    /\ UNCHANGED <<fs, gate_vars, signer, threads>>

NextArchive ==
    \/ ListIds
    \/ \E id \in Ids : Info(id)
    \/ \E id \in Ids, data \in Data : SetItemInfo(id, data)
    \/ \E id \in Ids, body \in Bodies : UpdateInfo(id, body)
    \/ \E id \in Ids, filename \in Filenames, file \in Files :
          UploadFile(id, filename, file)
    \/ \E id \in Ids, filename \in Filenames : GetFile(id, filename)
    \/ Return

SpecArchive == InitArchive /\ [][NextArchive]_vars

\* startup of an archive over a directory with zero-padded entries
InitPadded ==
    /\ config = CHOOSE c \in RateConfigs : c.permissions.read = "everyone"
    /\ now = StartTick * TickSeconds
    /\ issued = {}
    /\ req = NoRequest
    /\ resp = None
    /\ hits = NoHits
    /\ fs \in PaddedArchives
    /\ last = NoCall
    /\ signer = NoSigner
    /\ threads = NoThreads

SpecPadded == InitPadded /\ [][NextArchive]_vars

\* startup of an archive whose PATCH route is called from two clients
InitRace ==
    /\ config = CHOOSE c \in RateConfigs : c.permissions.read = "everyone"
    /\ now = StartTick * TickSeconds
    /\ issued = {}
    /\ req = NoRequest
    /\ resp = None
    /\ hits = NoHits
    /\ fs \in Archives
    /\ last = NoCall
    /\ signer = NoSigner
    /\ threads = NoThreads

\* a thread has raised: FastAPI answers with an internal error
Raised(t, exception) ==
    threads' = [threads EXCEPT ![t].pc = "done", ![t].response = raise(exception)]

\* PATCH /{id} starts in thread t, up to the return of get_item_info:
\* existing_data and final_data (archive.py:109-111), or the except block
\* with the data alone (lines 115-116)
Begin(t, id, body) ==
    /\ threads[t].pc = "idle"
    /\ LET data == model_validate(body)
           found == get_item_info(id)
           began == [Idle EXCEPT !.id = id, !.body = body]
       IN  IF found.error = "FileNotFoundError"
           THEN threads' = [threads EXCEPT ![t] =
                   [began EXCEPT !.pc = "exists", !.branch = "except",
                                 !.final_data = model_dump(data)]]
           ELSE IF found.error # ""
           THEN threads' = [threads EXCEPT ![t] =
                   [began EXCEPT !.pc = "done", !.branch = "try",
                                 !.response = raise(found.error)]]
           ELSE threads' = [threads EXCEPT ![t] =
                   [began EXCEPT !.pc = "exists", !.branch = "try",
                                 !.final_data = merge(found.value, model_dump(data))]]
    /\ UNCHANGED <<gate_vars, archive_vars, signer>>

\* set_item_info in thread t: the test `not item_path.exists()` (line 314)
Exists(t) ==
    /\ threads[t].pc = "exists"
    /\ threads' = [threads EXCEPT ![t].pc =
                      IF exists(fs, str(threads[t].id)) THEN "open" ELSE "mkdir"]
    /\ UNCHANGED <<gate_vars, archive_vars, signer>>

\* set_item_info in thread t: item_path.mkdir() (line 315), which raises
\* FileExistsError when the directory is there
Mkdir(t) ==
    /\ threads[t].pc = "mkdir"
    /\ IF exists(fs, str(threads[t].id))
       THEN Raised(t, "FileExistsError") /\ fs' = fs
       ELSE /\ fs' = mkdir(fs, str(threads[t].id))
            /\ threads' = [threads EXCEPT ![t].pc = "open"]
    /\ UNCHANGED <<gate_vars, last, signer>>

\* set_item_info in thread t: open(..., 'w') (line 316)
Open(t) ==
    /\ threads[t].pc = "open"
    /\ fs' = open_w(fs, str(threads[t].id))
    /\ threads' = [threads EXCEPT ![t].pc = "write"]
    /\ UNCHANGED <<gate_vars, last, signer>>

\* set_item_info in thread t: json.dump and the end of the with block (line
\* 317), and the return of update_info (line 113 or 117)
Write(t) ==
    /\ threads[t].pc = "write"
    /\ fs' = write(fs, str(threads[t].id), json_dump(threads[t].final_data))
    /\ threads' = [threads EXCEPT
                      ![t].pc = "done",
                      ![t].response = IF threads[t].branch = "try"
                                      THEN respond("resource_updated")
                                      ELSE respond("resource_created")]
    /\ UNCHANGED <<gate_vars, last, signer>>

NextRace ==
    \/ \E t \in Threads, id \in Ids, body \in RaceBodies : Begin(t, id, body)
    \/ \E t \in Threads : Exists(t)
    \/ \E t \in Threads : Mkdir(t)
    \/ \E t \in Threads : Open(t)
    \/ \E t \in Threads : Write(t)

SpecRace == InitRace /\ [][NextRace]_vars

\* startup of a signer: HMACSigner.__init__ with a key
InitSigner ==
    /\ config = CHOOSE c \in RateConfigs : c.permissions.read = "everyone"
    /\ now = StartTick * TickSeconds
    /\ issued = {}
    /\ req = NoRequest
    /\ resp = None
    /\ hits = NoHits
    /\ fs = NoEntries
    /\ last = NoCall
    /\ signer \in {[NoSigner EXCEPT !.key = secret] : secret \in Keys}
    /\ threads = NoThreads

\* generate(obj) is called on this signer: the signature is at hand
Generate(obj) ==
    /\ signer' = [signer EXCEPT !.op = "generate", !.obj = obj,
                                !.sig = HMACSigner_generate(signer.key, obj),
                                !.made = [key |-> signer.key, obj |-> obj],
                                !.ok = FALSE]
    /\ UNCHANGED <<gate_vars, archive_vars, threads>>

\* a signature that a signer with another key made comes to hand
Foreign(secret, obj) ==
    /\ secret # signer.key
    /\ signer' = [signer EXCEPT !.op = "", !.obj = << >>,
                                !.sig = HMACSigner_generate(secret, obj),
                                !.made = [key |-> secret, obj |-> obj],
                                !.ok = FALSE]
    /\ UNCHANGED <<gate_vars, archive_vars, threads>>

\* a text that no signer made comes to hand
Forged ==
    /\ signer' = [signer EXCEPT !.op = "", !.obj = << >>,
                                !.sig = <<"garbage">>,
                                !.made = NotMade,
                                !.ok = FALSE]
    /\ UNCHANGED <<gate_vars, archive_vars, threads>>

\* verify(obj, sig) is called on this signer with the signature at hand
Verify(obj) ==
    /\ signer.sig # << >>
    /\ signer' = [signer EXCEPT !.op = "verify", !.obj = obj,
                                !.ok = HMACSigner_verify(signer.key, obj, signer.sig)]
    /\ UNCHANGED <<gate_vars, archive_vars, threads>>

NextSigner ==
    \/ \E obj \in Payloads : Generate(obj)
    \/ \E secret \in Keys, obj \in Payloads : Foreign(secret, obj)
    \/ Forged
    \/ \E obj \in Payloads : Verify(obj)

SpecSigner == InitSigner /\ [][NextSigner]_vars

----------------------------------------------------------------------------
(* Vocabulary of the properties: the request that was just decided *)

Done == req # NoRequest

Protected == \E p \in config.advanced.protected_prefixes :
                Len(req.path) >= Len(p) /\ SubSeq(req.path, 1, Len(p)) = p

SignUrl == "signUrl" \in DOMAIN req.query_params

SignatureParam == "signature" \in DOMAIN req.query_params

ExpiresParam == "expires" \in DOMAIN req.query_params

\* the request was handed to the route handler
Forwarded == resp.code = "handler" /\ resp.called

\* the request was answered with the structured denial, the handler not called
Denied(code) == resp.code = code /\ ~ resp.called

\* the action of the request's method
Action ==
    IF req.method \in {"GET", "HEAD"} THEN "read"
    ELSE IF req.method \in {"POST", "PUT", "PATCH"} THEN "write"
    ELSE IF req.method = "DELETE" THEN "delete"
    ELSE "other"

\* the permission group configured for that action
Group == config.permissions[Action]

Threshold == [users |-> 1, contributors |-> 2, admin |-> 3]

\* the credentials the request carries at the configured locations
HeaderCredential ==
    IF config.advanced.auth_header \in DOMAIN req.headers
    THEN {req.headers[config.advanced.auth_header]} ELSE {}

CookieCredential ==
    IF config.advanced.auth_cookie \in DOMAIN req.cookies
    THEN {req.cookies[config.advanced.auth_cookie]} ELSE {}

Credential == IF HeaderCredential # {} THEN HeaderCredential ELSE CookieCredential

\* the users of the directory that the request's credential belongs to
CredentialUsers == {u \in Users : u.api_key \in Credential}

\* read-only mode is on and the method is not a reading one
ReadOnlyApplies == config.advanced.read_only /\ req.method \notin {"GET", "HEAD"}

\* a request of the credential stage: protected path, no signUrl, no signature
CredentialStage == Done /\ Protected /\ ~ SignUrl /\ ~ SignatureParam

\* the request presents the signed URL g as it was handed out, from g's client
Presents(g) ==
    /\ Done /\ ~ SignUrl /\ req.method = "GET"
    /\ req.path = g.path /\ req.client = g.client
    /\ SignatureParam /\ req.query_params["signature"] = g.signature
    /\ ExpiresParam /\ req.query_params["expires"] = g.expires

MaxDuration == config.signed_urls.duration * 60

----------------------------------------------------------------------------
(* Properties *)

\* C1: every request to a protected path ends either forwarded to the handler
\* or in one structured response of the taxonomy (a denial, or the signed URL
\* of a signUrl request), never in an unhandled exception, and the handler is
\* not invoked unless the request is forwarded.
C1_ExactlyOneOutcome ==
    Done /\ Protected =>
        \/ Forwarded
        \/ resp.code \in RESPONSES /\ ~ resp.called
        \/ resp.code = "signed_url" /\ ~ resp.called

\* C2: in read-only mode every write or delete request to a protected path
\* without signUrl and signature is denied with read_only, whatever credential
\* it carries, also none.
C2_ReadOnlyWhateverCredential ==
    CredentialStage /\ config.advanced.read_only /\ Action \in {"write", "delete"}
        => Denied("read_only")

\* C3: when the group of the request's action is everyone, a request to a
\* protected path without signUrl and signature is forwarded to the handler,
\* also without a credential and with an unknown one (stated here for the
\* requests that read-only mode does not apply to).
C3_EveryoneForwarded ==
    CredentialStage /\ Group = "everyone" /\ ~ ReadOnlyApplies => Forwarded

\* C4 as written: for a numbered group and a credential of a user of the
\* directory, the request is forwarded iff auth_level >= the group's
\* threshold, and is denied with insufficient_permissions otherwise.
C4_ThresholdAlways ==
    CredentialStage /\ Group \in DOMAIN Threshold =>
        \A u \in CredentialUsers :
            IF u.auth_level >= Threshold[Group] THEN Forwarded
            ELSE Denied("insufficient_permissions")

\* C4 amended: the same, unless read-only mode applies to the request (then
\* it is denied with read_only whatever the auth level).
C4_Threshold ==
    CredentialStage /\ Group \in DOMAIN Threshold /\ ~ ReadOnlyApplies =>
        \A u \in CredentialUsers :
            IF u.auth_level >= Threshold[Group] THEN Forwarded
            ELSE Denied("insufficient_permissions")

\* a contributor is allowed what contributors are allowed
C4_Witness ==
    /\ CredentialStage /\ Group = "contributors" /\ Action = "write"
    /\ \E u \in CredentialUsers : u.auth_level = 2
    /\ Forwarded

\* C5 as written: when the group of the request's action is nobody, every
\* request that supplies a credential is denied with disabled_feature.
C5_NobodyAlways ==
    Done /\ Protected /\ ~ SignatureParam /\ Group = "nobody" /\ Credential # {}
        => Denied("disabled_feature")

\* C5 amended: the same, unless read-only mode applies to the request (then
\* it is denied with read_only).
C5_Nobody ==
    Done /\ Protected /\ ~ SignatureParam /\ Group = "nobody" /\ Credential # {}
        /\ ~ ReadOnlyApplies
        => Denied("disabled_feature")

\* a credential unknown to the directory meets a disabled action
C5_Witness ==
    /\ Done /\ Protected /\ ~ SignatureParam /\ Group = "nobody"
    /\ Credential = {"key-unknown"}
    /\ Denied("disabled_feature")

\* C6: a signed URL presented as handed out, by GET from the client it was
\* handed to, at a time from its minting to its expiry, is forwarded to the
\* handler, every time.
C6_GrantAccepted ==
    \A g \in issued :
        Presents(g) /\ g.at <= now /\ now <= DigitsToInt(g.expires) => Forwarded

\* a signed URL is used in its last second, some time after it was handed out
C6_Witness ==
    \E g \in issued :
        Presents(g) /\ g.at < now /\ now = DigitsToInt(g.expires) /\ Forwarded

\* C7: a GET that presents an issued signature from another client, on
\* another path or with another expires value is denied with
\* url_signature_mismatch.
C7_BoundToClientPathExpiry ==
    \A g \in issued :
        /\ Done /\ Protected /\ ~ SignUrl /\ req.method = "GET"
        /\ SignatureParam /\ req.query_params["signature"] = g.signature
        /\ ExpiresParam
        /\ \/ req.client # g.client
           \/ req.path # g.path
           \/ req.query_params["expires"] # g.expires
        => Denied("url_signature_mismatch")

\* C8: a correctly signed URL presented after its expiry is denied with
\* expired_url carrying the expiry and the current time; at the second of its
\* expiry it is still forwarded.
C8_Expired ==
    \A g \in issued :
        Presents(g) =>
            /\ now > DigitsToInt(g.expires) =>
                    /\ Denied("expired_url")
                    /\ resp.extra = [expires_at |-> isoformat(DigitsToInt(g.expires)),
                                     current_time |-> isoformat(now)]
            /\ now = DigitsToInt(g.expires) => Forwarded

\* a signed URL is presented after its expiry
C8_Witness ==
    \E g \in issued :
        Presents(g) /\ now > DigitsToInt(g.expires) /\ Denied("expired_url")

\* C9: a correctly signed URL whose expiry is more than the configured
\* duration ahead of the current time is denied with expires_too_late, and no
\* request is forwarded on a signature with such an expiry.
C9_ExpiresTooLate ==
    /\ \A g \in issued :
          Presents(g) /\ DigitsToInt(g.expires) > now + MaxDuration
              => Denied("expires_too_late")
    /\ Done /\ Protected /\ ~ SignUrl /\ SignatureParam /\ Forwarded
          /\ req.query_params["signature"] # << >>
          => /\ ExpiresParam
             /\ ~ IntRaises(req.query_params["expires"])
             /\ DigitsToInt(req.query_params["expires"]) <= now + MaxDuration

\* the clock was set back after a signed URL was handed out
C9_Witness ==
    \E g \in issued :
        /\ Presents(g) /\ DigitsToInt(g.expires) > now + MaxDuration
        /\ Denied("expires_too_late")

\* C10: a GET to a protected path with a signature but with expires absent,
\* empty or not a number is denied with url_signature_mismatch.
C10_MalformedExpires ==
    /\ Done /\ Protected /\ ~ SignUrl /\ req.method = "GET"
    /\ SignatureParam /\ req.query_params["signature"] # << >>
    /\ \/ ~ ExpiresParam
       \/ ~ isnumeric(req.query_params["expires"])
    => Denied("url_signature_mismatch")

C12_MintOnlyAuthorized ==
    Done /\ resp.code = "signed_url" =>
        \E u \in CredentialUsers :
            \/ config.permissions.read = "everyone"
            \/ /\ config.permissions.read \in DOMAIN Threshold
               /\ u.auth_level >= Threshold[config.permissions.read]

\* C13: a request to a protected path with signUrl never invokes the route
\* handler; without a credential at a configured location it is answered
\* with no_api_key.
C13_MintNeverForwards ==
    Done /\ Protected /\ SignUrl =>
        /\ ~ resp.called
        /\ resp.code # "handler"
        /\ Credential = {} => Denied("no_api_key")

\* a signUrl request that presents a valid signed URL and no credential
C13_Witness ==
    /\ Done /\ Protected /\ SignUrl /\ req.method = "GET" /\ Credential = {}
    /\ \E g \in issued :
          /\ req.path = g.path /\ req.client = g.client
          /\ SignatureParam /\ req.query_params["signature"] = g.signature
          /\ ExpiresParam /\ req.query_params["expires"] = g.expires
          /\ g.at <= now /\ now <= DigitsToInt(g.expires)
    /\ Denied("no_api_key")

\* C14: no signed URL is returned to a request with a method other than GET;
\* a signUrl request with such a method ends in a structured denial.
C14_MintOnlyForGet ==
    Done /\ req.method # "GET" =>
        /\ resp.code # "signed_url"
        /\ Protected /\ SignUrl => resp.code \in RESPONSES /\ ~ resp.called

\* the admin asks for a signed URL with HEAD
C14_Witness ==
    /\ Done /\ Protected /\ SignUrl /\ req.method = "HEAD"
    /\ Credential = {"key-admin"}
    /\ config.permissions.read \in {"everyone", "users", "contributors", "admin"}
    /\ Denied("signed_url_method")

\* C15: a signed URL is returned with expires = now + duration * 60, its
\* signature is the one of {expires, ip: the requester's address, url: the
\* request's path}, and the URL carries that path, signature and expires.
C15_MintedGrant ==
    Done /\ resp.code = "signed_url" =>
        LET expires == now + (config.signed_urls.duration * 60)
            url == resp.extra.url
        IN  /\ url.path = req.path
            /\ url.expires = IntToStr(expires)
            /\ ~ IntRaises(url.expires) /\ DigitsToInt(url.expires) = expires
            /\ verify([expires |-> expires, ip |-> req.client, url |-> req.path],
                      url.signature)
            /\ \A c \in Clients, p \in Paths, e \in {expires - 1, expires + 1} :
                  /\ c # req.client =>
                        ~ verify([expires |-> expires, ip |-> c, url |-> req.path],
                                 url.signature)
                  /\ p # req.path =>
                        ~ verify([expires |-> expires, ip |-> req.client, url |-> p],
                                 url.signature)
                  /\ ~ verify([expires |-> e, ip |-> req.client, url |-> req.path],
                              url.signature)
            /\ resp.extra.expires_at = isoformat(expires)
            /\ resp.extra.current_time = isoformat(now)

\* a signed URL is handed out under a duration of two minutes
C15_Witness ==
    /\ Done /\ resp.code = "signed_url"
    /\ config.signed_urls.duration = 2
    /\ issued = {[path |-> req.path, signature |-> resp.extra.url.signature,
                  expires |-> IntToStr(now + 120), client |-> req.client, at |-> now]}

\* C16: with rate limiting on, a request of a client that has used up a rule
\* on a non-exempt route is answered with the rate-limit response, whatever
\* the gate would say, and is still counted.
C16_RateLimitFirst ==
    [][ /\ req = NoRequest /\ req' # NoRequest
        /\ limited(req') /\ exhausted(req')
        => /\ resp' = rate_limit_exceeded
           /\ hits'[key(req')] > hits[key(req')] \/ hits[key(req')] = MaxHits ]_vars

\* C17: a request whose path has no protected prefix is forwarded to the
\* handler, whatever its method, its signUrl, signature and expires
\* parameters, its credential and the read-only mode are; no signed URL is
\* handed out for it.
C17_UnprotectedBypass ==
    Done /\ ~ Protected =>
        /\ Forwarded
        /\ resp = handler(req)
        /\ resp.code # "signed_url"

\* a POST with signUrl to an unprotected path in read-only mode, no credential
C17_Witness ==
    /\ Done /\ ~ Protected /\ SignUrl /\ req.method = "POST"
    /\ config.advanced.read_only /\ Credential = {}
    /\ Forwarded

C19_CredentialOrder ==
    Done /\ Protected /\ ~ SignatureParam =>
        LET adv == config.advanced
            in_header == adv.auth_header # "" /\ adv.auth_header \in DOMAIN req.headers
            in_cookie == adv.auth_cookie # "" /\ adv.auth_cookie \in DOMAIN req.cookies
        IN  /\ in_header /\ req.cookies # NoValues
                  => resp = dispatch([req EXCEPT !.cookies = NoValues])
            /\ adv.auth_header = "" /\ req.headers # NoValues
                  => resp = dispatch([req EXCEPT !.headers = NoValues])
            /\ adv.auth_cookie = "" /\ req.cookies # NoValues
                  => resp = dispatch([req EXCEPT !.cookies = NoValues])
            /\ ~ in_header /\ ~ in_cookie =>
                  Denied(IF SignUrl THEN "no_api_key" ELSE "auth_required")
            /\ Credential = IF in_header THEN {req.headers[adv.auth_header]}
                            ELSE IF in_cookie THEN {req.cookies[adv.auth_cookie]}
                            ELSE {}

\* uma's key in the header and ada's in the cookie, for what only admins may do
C19_Witness ==
    /\ CredentialStage /\ ~ ReadOnlyApplies /\ Group = "admin"
    /\ config.advanced.auth_header = HeaderName /\ config.advanced.auth_cookie = CookieName
    /\ HeaderName \in DOMAIN req.headers /\ req.headers[HeaderName] = "key-user"
    /\ CookieName \in DOMAIN req.cookies /\ req.cookies[CookieName] = "key-admin"
    /\ Denied("insufficient_permissions")

C21_MethodToGroup ==
    CredentialStage /\ Credential # {}
        /\ (Action \in {"read", "other"} \/ ~ config.advanced.read_only)
        => \E api_key \in Credential :
              resp = authorize(req, "handler", Group, api_key)

\* C22: list_items() returns the ids of the complete items in ascending
\* order: a numeric directory is listed iff it holds the marker, and a
\* directory with a name that is no number is not listed, marker or not.
C22_ListItems ==
    last.op = "list_ids" =>
        LET ids == last.response.extra IN
        /\ \A i \in 1..(Len(ids) - 1) : ids[i] < ids[i + 1]
        /\ {ids[i] : i \in 1..Len(ids)} =
              {id \in Stored : str(id) \in DOMAIN fs /\ fs[str(id)].crumb_is_file}

\* two items are listed, the far one last, next to abc and a numeric
\* directory without marker
C22_Witness ==
    /\ last.op = "list_ids" /\ Len(last.response.extra) = 2
    /\ Abc \in DOMAIN fs /\ fs[Abc].crumb_is_file
    /\ last.response.extra[2] = FarId
    /\ \E id \in Ids : str(id) \in DOMAIN fs /\ ~ fs[str(id)].crumb_is_file

\* C23: after set_item_info(id, data) the item has its directory and its
\* marker, check_item(id) is true, id is in list_items() and
\* get_item_info(id) returns exactly data, whatever the item held before.
C23_SetThenGet ==
    last.op = "set_item_info" =>
        /\ str(last.id) \in DOMAIN fs /\ fs[str(last.id)].crumb_is_file
        /\ check_item(last.id)
        /\ \E i \in 1..Len(list_items) : list_items[i] = last.id
        /\ get_item_info(last.id).error = ""
        /\ get_item_info(last.id).value = last.data

\* the mapping with the one key extra has been written
C23_Witness ==
    /\ last.op = "set_item_info" /\ last.data = [extra |-> "A"]
    /\ get_item_info(last.id).value = [extra |-> "A"]

\* C24: get_item_info(id) fails with FileNotFoundError exactly when
\* check_item(id) is false; the item-info endpoint then answers
\* not_in_archive and the archive directory is as before.
C24_InfoNotFound ==
    [][ last.op = "" /\ last'.op = "info" =>
          /\ (get_item_info(last'.id).error = "FileNotFoundError")
                <=> ~ check_item(last'.id)
          /\ ~ check_item(last'.id) =>
                /\ last'.response.code = "not_in_archive"
                /\ ~ last'.response.called
                /\ fs' = fs
          /\ check_item(last'.id) => last'.response.code = "model" ]_vars

\* the info of a directory without marker was asked for
C24_Witness ==
    /\ last.op = "info" /\ last.response.code = "not_in_archive"
    /\ str(last.id) \in DOMAIN fs /\ ~ check_item(last.id)

\* C25: an upload whose declared content type is not the type of the file
\* name is answered wrong_content_type with the expected type, the item
\* being there or not, and leaves the archive directory as it was.
C25_WrongContentType ==
    [][ /\ last.op = "" /\ last'.op = "upload_file"
        /\ last'.filename[2] = "jpg" /\ last'.file.content_type # "image/jpeg"
        => /\ last'.response.code = "wrong_content_type"
           /\ ~ last'.response.called
           /\ last'.response.extra.expected_mimetype = "image/jpeg"
           /\ fs' = fs ]_vars

\* a rejected upload over a file that holds other bytes
C25_Witness ==
    /\ last.op = "upload_file" /\ last.response.code = "wrong_content_type"
    /\ is_file(last.id, "images", last.filename)
    /\ fs[str(last.id)].branches["images"].files[last.filename] # last.file.content

\* C26: an upload with a matching content type to an id without marker is
\* answered not_in_archive.
C26_UploadNotInArchive ==
    /\ last.op = "upload_file" /\ last.filename[2] = "jpg"
    /\ last.file.content_type = "image/jpeg"
    /\ ~ check_item(last.id)
    => last.response.code = "not_in_archive" /\ ~ last.response.called

\* C27: a PATCH of an existing item gives every key of the body the body's
\* value, leaves every other key as it was and answers resource_updated; a
\* PATCH of an id without marker stores the body and answers resource_created.
C27_ShallowMerge ==
    [][ \A id \in Ids, body \in Bodies :
          /\ last.op = "" /\ last'.op = "update_info"
          /\ last'.id = id /\ last'.data = body
          => LET before == get_item_info(id)
                 after == get_item_info(id)'
             IN  /\ after.error = ""
                 /\ IF before.error = ""
                    THEN /\ last'.response.code = "resource_updated"
                         /\ after.value = merge(before.value, body)
                    ELSE /\ last'.response.code = "resource_created"
                         /\ after.value = body ]_vars

\* the ids that list_items() returns
Listed == {list_items[i] : i \in 1..Len(list_items)}

\* C28: an item that is there stays there, whatever call is made; the ids of
\* list_items() are those of the items that are there, so they are never
\* fewer after a step.
C28_NeverDeleted ==
    [][ /\ \A id \in Stored : check_item(id) => check_item(id)'
        /\ Listed = {id \in Stored : check_item(id)} ]_vars

\* a file was uploaded to an item, and the item is still there
C28_Witness ==
    /\ last.op = "upload_file" /\ last.response.code = "upload_succeeded"
    /\ check_item(last.id)
    /\ is_file(last.id, "images", last.filename)

\* C30: when a request to a protected path carries a non-empty signature
\* parameter and no signUrl, the signature check alone decides: the outcome
\* is the one of the same request without credential, it is none of the
\* answers of the credential check, the request is forwarded only if the
\* signature verifies, and a signature that verifies and is in time is
\* forwarded whatever the credential.
C30_SignatureDecidesAlone ==
    /\ Done /\ Protected /\ ~ SignUrl
    /\ SignatureParam /\ req.query_params["signature"] # << >>
    => LET bare == IF Credential = {} THEN resp
                   ELSE dispatch([req EXCEPT !.headers = NoValues, !.cookies = NoValues])
           signature == req.query_params["signature"]
           numeric == ExpiresParam /\ ~ IntRaises(req.query_params["expires"])
           expires == DigitsToInt(req.query_params["expires"])
           verified == /\ req.method = "GET" /\ numeric
                       /\ verify([expires |-> expires, ip |-> req.client,
                                   url |-> req.path], signature)
       IN  /\ resp.code = bare.code /\ resp.called = bare.called
           /\ resp.code \notin {"auth_required", "no_api_key", "invalid_api_key",
                                 "insufficient_permissions", "disabled_feature",
                                 "read_only"}
           /\ Forwarded => verified
           /\ verified /\ now <= expires /\ expires <= now + MaxDuration => Forwarded

\* a signature of no one with the admin's key, where admins may read
C30_Witness ==
    /\ Done /\ Protected /\ ~ SignUrl /\ req.method = "GET"
    /\ SignatureParam /\ req.query_params["signature"] = <<"garbage">>
    /\ ExpiresParam /\ req.query_params["expires"] = IntToStr(now)
    /\ Credential = {"key-admin"}
    /\ config.permissions.read \in {"everyone", "users", "contributors", "admin"}
    /\ Denied("url_signature_mismatch")

BothDone ==
    /\ \A t \in Threads : threads[t].pc = "done"
    /\ threads["t1"].id = threads["t2"].id

\* C31: when two updates of one item that are there at the same time have
\* both answered resource_updated, the item holds the merge that one of the
\* two computed.
C31_LastWriteWins ==
    /\ BothDone
    /\ \A t \in Threads : threads[t].response = respond("resource_updated")
    => LET after == get_item_info(threads["t1"].id)
       IN  /\ after.error = ""
           /\ \E t \in Threads : after.value = threads[t].final_data

\* C37: two first writes of the metadata of a new id that are there at the
\* same time both end without an error, and the item then holds the
\* metadata of one of them.
C37_FirstWrites ==
    /\ BothDone
    /\ \A t \in Threads : threads[t].branch = "except"
    => /\ \A t \in Threads : threads[t].response = respond("resource_created")
       /\ LET after == get_item_info(threads["t1"].id)
          IN  /\ after.error = ""
              /\ \E t \in Threads : after.value = threads[t].final_data

\* C36: every id that list_items() returns is an item for check_item, its
\* metadata can be read, and no id is returned twice, also over a directory
\* with zero-padded entries.
C36_ListedAreItems ==
    /\ \A i \in 1..Len(list_items) :
          /\ check_item(list_items[i])
          /\ get_item_info(list_items[i]).error = ""
    /\ \A i, j \in 1..Len(list_items) : list_items[i] = list_items[j] => i = j

\* C32: a request to a protected path that is forwarded to the handler has
\* written one record to the log, with the identity, the client address, the
\* method and the path, and without the query parameters that authenticate;
\* a request that is denied has written none.
C32_ForwardedIsLogged ==
    Loaded /\ Done /\ Protected =>
        /\ Forwarded =>
              /\ Len(resp.log) = 1
              /\ \E u \in CredentialUsers : resp.log[1].username = u.name
              /\ resp.log[1].host = req.client
              /\ resp.log[1].method = req.method
              /\ resp.log[1].url.path = req.path
              /\ DOMAIN resp.log[1].url.query_params \cap {"signature", "expires"} = {}
        /\ ~ resp.called /\ resp.code \in RESPONSES => resp.log = << >>

\* C33: a configuration with a group name that is not one of the five is
\* refused when it is loaded, so every loaded configuration has known groups
\* only, and no request ends in the ValueError of an unknown permission group
\* (a ValueError comes from the expires of a signed request only).
C33_UnknownGroupRefused ==
    /\ Loaded =>
          \A action \in DOMAIN config.permissions :
              \E i \in 1..Len(GroupNames) : config.permissions[action] = GroupNames[i]
    /\ Done => /\ Loaded
               /\ resp.code = "ValueError" =>
                     ~ SignUrl /\ has_param(req.query_params, "signature")

\* a config.toml was refused, and the process has taken no request
C33_Witness == config = ValidationError /\ req = NoRequest /\ resp = None

\* C34: under a clock that is not set back and an unchanged duration, a grant
\* that the gate minted and that is presented as minted is never answered
\* expires_too_late: it is accepted while now <= expires and answered
\* expired_url after that, and that time never ends.
C34_MintedNeverTooLate ==
    [][ /\ now' >= now
        /\ config' = config \/ config = NotLoaded
        /\ \A g \in issued :
              Presents(g) =>
                 /\ resp.code # "expires_too_late"
                 /\ now <= DigitsToInt(g.expires) => Forwarded
                 /\ now > DigitsToInt(g.expires) => Denied("expired_url") ]_vars

\* a minted grant is presented after its time
C34_Witness ==
    \E g \in issued :
        /\ Presents(g) /\ now > DigitsToInt(g.expires)
        /\ Denied("expired_url")

\* C35: a request without a credential never changes the grants that were
\* handed out; one that asks for a signed URL on a protected path is
\* answered no_api_key, also when it presents a valid signed URL.
C35_NoMintByGrant ==
    [][ /\ Loaded /\ req = NoRequest /\ req' # NoRequest
        /\ (Credential = {})'
        => /\ issued' = issued
           /\ resp'.code # "signed_url"
           /\ (Protected /\ SignUrl)' => resp' = respond("no_api_key") ]_vars

\* a signed URL request that presents a grant in its time, without credential
C35_Witness ==
    /\ Loaded /\ Done /\ Protected /\ SignUrl /\ Credential = {}
    /\ req.method = "GET"
    /\ \E g \in issued :
          /\ req.path = g.path /\ req.client = g.client
          /\ SignatureParam /\ req.query_params["signature"] = g.signature
          /\ ExpiresParam /\ req.query_params["expires"] = g.expires
          /\ now <= DigitsToInt(g.expires)
    /\ Denied("no_api_key")

\* C38: with signed URLs switched off no grant is minted, and no request is
\* forwarded on a signature.
C38_SignedUrlsDisabled ==
    Loaded /\ Done /\ Protected /\ ~ config.signed_urls.enabled =>
        /\ resp.code # "signed_url"
        /\ Forwarded => ~ has_param(req.query_params, "signature")

====
